---------------------------- MODULE Spec2Model ----------------------------
(***************************************************************************)
(* CleanDesk-ACRM: consolidation of per-employee clean-desk notes, the     *)
(* date-range filter, the LLM pass/fail classifier and the reporter, as    *)
(* implemented in main.py (Ollama GUI), gemini_process.py (Gemini GUI) and *)
(* dsa.py (consolidation and filter only), and the classifier script       *)
(* Main2.py, which has no consolidation and no filter.                     *)
(*                                                                         *)
(* Texts the code searches (LLM replies) are tuples of one-character       *)
(* strings.  A date text "a<sep>b<sep>c" is a record of its separator and  *)
(* its three numeric fields in textual order; parsing and formatting are   *)
(* operators over that record.  Files hold texts, data frames hold values. *)
(***************************************************************************)
EXTENDS Integers, Sequences, FiniteSets, TLC

\* ------------------------------------------------------------------ bounds

\* Total number of rows handed to the classifier in one behaviour: a
\* classification run is started only when its rows fit in what is left.
MaxCalls == 2

\* --------------------------------------------------------------- texts

Range(s) == {s[i] : i \in 1..Len(s)}

ErrorOrNoResponse == <<"E", "r", "r", "o", "r", " ", "o", "r", " ", "N", "o", " ", "R", "e", "s", "p", "o", "n", "s", "e">>
PassWord == <<"p", "a", "s", "s">>
FailWord == <<"f", "a", "i", "l">>
TxtFail1 == <<"F", "a", "i", "l", ",", " ">>
TxtFail2 == <<"i", "t", "e", "m", "s", " ", "p", "r", "e", "s", "e", "n", "t">>
TxtFail == <<"F", "a", "i", "l", ",", " ", "i", "t", "e", "m", "s", " ", "p", "r", "e", "s", "e", "n", "t">>
TxtPass == <<"P", "a", "s", "s", ",", " ", "c", "o", "m", "p", "l", "i", "a", "n", "t">>
TxtBoth == <<" ", "P", "A", "S", "S", " ", "o", "r", " ", "f", "a", "i", "l", "?", " ">>
TxtNeither == <<"u", "n", "c", "l", "e", "a", "r">>
TxtBlank == <<" ", " ">>
TxtNA == <<"N", "/", "A">>

\* str.lower() on one character (the letters the replies use).
LowerChar(c) ==
    CASE c = "P" -> "p" [] c = "A" -> "a" [] c = "S" -> "s" [] c = "F" -> "f"
      [] c = "I" -> "i" [] c = "L" -> "l" [] c = "E" -> "e" [] c = "R" -> "r"
      [] c = "N" -> "n" [] OTHER -> c

\* str.lower()
Lower(s) == [i \in 1..Len(s) |-> LowerChar(s[i])]

\* sub in s
Contains(sub, s) ==
    \E i \in 1..(Len(s) - Len(sub) + 1) : SubSeq(s, i, i + Len(sub) - 1) = sub

IsSpace(c) == c \in {" ", "\n", "\t"}

RECURSIVE LStrip(_)
LStrip(s) == IF s # <<>> /\ IsSpace(Head(s)) THEN LStrip(Tail(s)) ELSE s

RECURSIVE RStrip(_)
RStrip(s) ==
    IF s # <<>> /\ IsSpace(s[Len(s)]) THEN RStrip(SubSeq(s, 1, Len(s) - 1)) ELSE s

\* str.strip()
Strip(s) == RStrip(LStrip(s))

\* str.replace(' ', '_') on a name, for the names the model uses.
ReplaceSpaces(name) ==
    CASE name = "Bob Lee" -> "Bob_Lee" [] OTHER -> name

\* --------------------------------------------------------------- dates

DateText(sep, a, b, c) == [kind |-> "date", sep |-> sep, a |-> a, b |-> b, c |-> c]
PlainText(s) == [kind |-> "text", s |-> s]
NaNCell == [kind |-> "NaN"]
NaT == [kind |-> "NaT"]
Timestamp(y, m, d) == [kind |-> "ts", y |-> y, m |-> m, d |-> d]

IsLeap(y) == (y % 4 = 0 /\ y % 100 # 0) \/ y % 400 = 0

DaysIn(m, y) ==
    CASE m \in {4, 6, 9, 11} -> 30
      [] m = 2 -> IF IsLeap(y) THEN 29 ELSE 28
      [] OTHER -> 31

ValidYMD(y, m, d) ==
    /\ y \in 1000..9999
    /\ m \in 1..12
    /\ d \in 1..DaysIn(m, y)

\* datetime.strptime(text, "%m-%d-%Y"); NaT stands for the ValueError.
StrptimeMDY(t) ==
    IF t.kind = "date" /\ t.sep = "-" /\ ValidYMD(t.c, t.a, t.b)
    THEN Timestamp(t.c, t.a, t.b) ELSE NaT

\* datetime.strptime(text, "%Y-%m-%d"); a non-string raises TypeError.
StrptimeYMD(t) ==
    IF t.kind = "date" /\ t.sep = "-" /\ ValidYMD(t.a, t.b, t.c)
    THEN Timestamp(t.a, t.b, t.c) ELSE NaT

\* datetime.strptime(text, "%d/%m/%Y") (Main2.py)
StrptimeDMY(t) ==
    IF t.kind = "date" /\ t.sep = "/" /\ ValidYMD(t.c, t.b, t.a)
    THEN Timestamp(t.c, t.b, t.a) ELSE NaT

\* dateutil.parser.parse(text): year first when the first field has four
\* digits, otherwise month first, day first when the month would not fit.
DateutilParse(t) ==
    IF t.kind # "date" THEN NaT
    ELSE IF t.a >= 1000
         THEN (IF ValidYMD(t.a, t.b, t.c) THEN Timestamp(t.a, t.b, t.c) ELSE NaT)
    ELSE IF ValidYMD(t.c, t.a, t.b) THEN Timestamp(t.c, t.a, t.b)
    ELSE IF ValidYMD(t.c, t.b, t.a) THEN Timestamp(t.c, t.b, t.a)
    ELSE NaT

\* strftime("%m-%d-%Y")
FormatMDY(ts) == DateText("-", ts.m, ts.d, ts.y)

\* how to_csv writes a datetime64 cell (ISO date), NaT as the empty field
FormatISO(v) == IF v.kind = "ts" THEN DateText("-", v.y, v.m, v.d) ELSE PlainText("")

DateKey(ts) == ts.y * 10000 + ts.m * 100 + ts.d

\* Timestamp comparison; a comparison with NaT is False.
DateLE(x, y) == x.kind = "ts" /\ y.kind = "ts" /\ DateKey(x) <= DateKey(y)

\* ----------------------------------------------------------------- CSV

\* pandas' default NA strings among the texts the model uses
NaStrings == {"", "nan", "N/A", "NA", "null"}

NaN == "<NaN>"

\* pd.read_csv on a date field
ReadCsvCell(t) == IF t.kind = "text" /\ t.s \in NaStrings THEN NaNCell ELSE t

\* to_csv on a cell: NaN / NaT as the empty field, a datetime64 as its ISO date
WriteCsvCell(v) ==
    CASE v.kind \in {"NaN", "NaT"} -> PlainText("")
      [] v.kind = "ts" -> FormatISO(v)
      [] OTHER -> v

\* Series.astype(str)
AsTypeStr(v) == IF v.kind = "NaN" THEN PlainText("nan") ELSE v

\* pd.read_csv / to_csv on a note field
ReadCsvNote(s) == IF s \in NaStrings THEN NaN ELSE s
WriteCsvNote(s) == IF s = NaN THEN "" ELSE s

\* pd.read_csv / to_csv on a field of the AI_Response column
NaTexts == {<<>>, TxtNA}
NaNText == <<NaN>>
ReadCsvText(t) == IF t \in NaTexts THEN NaNText ELSE t
WriteCsvText(t) == IF t = NaNText THEN <<>> ELSE t

NoFile == [exists |-> FALSE]
File(cols, rows) == [exists |-> TRUE, cols |-> cols, rows |-> rows]


\* row of a data frame or of a file: a function from column name to cell
Row3(emp, date, note) ==
    ("Employee Name" :> emp) @@ ("Record Date" :> date) @@ ("Note" :> note)
Row4(emp, date, note, loc) == Row3(emp, date, note) @@ ("Location" :> loc)

DateColumns == {"Record Date", "Last Clean Desk Date", "Record_Date"}
NoteColumns == {"Note", "notes"}

\* DataFrame.to_csv on one row
ToCsvRow(r) ==
    [c \in DOMAIN r |->
        IF c \in DateColumns THEN WriteCsvCell(r[c])
        ELSE IF c \in NoteColumns THEN WriteCsvNote(r[c])
        ELSE IF c = "AI_Response" THEN WriteCsvText(r[c])
        ELSE r[c]]

\* pd.read_csv on one row
ReadCsvRow(r) ==
    [c \in DOMAIN r |->
        IF c \in DateColumns THEN ReadCsvCell(r[c])
        ELSE IF c \in NoteColumns THEN ReadCsvNote(r[c])
        ELSE IF c = "AI_Response" THEN ReadCsvText(r[c])
        ELSE r[c]]

ToCsv(rows) == [i \in 1..Len(rows) |-> ToCsvRow(rows[i])]
ReadCsv(rows) == [i \in 1..Len(rows) |-> ReadCsvRow(rows[i])]

\* ------------------------------------------------------ directory trees

Variants == {"main", "gemini", "dsa", "main2"}

\* the programs that have consolidate_cdnotes and the date filter
Consolidators == {"main", "gemini", "dsa"}

Line(date, note) == [bad |-> FALSE, date |-> date, note |-> note]
BadLine == [bad |-> TRUE, date |-> PlainText("x"), note |-> "y"]

NotesAbsent == [st |-> "absent", lines |-> <<>>]
NotesUnreadable == [st |-> "unreadable", lines |-> <<>>]
Notes(lines) == [st |-> "ok", lines |-> lines]

LocAbsent == [st |-> "absent", text |-> ""]
LocUnreadable == [st |-> "unreadable", text |-> ""]
Loc(text) == [st |-> "ok", text |-> text]

Dir(name, notes, loc) == [name |-> name, isDir |-> TRUE, notes |-> notes, loc |-> loc]
PlainFile(name) == [name |-> name, isDir |-> FALSE, notes |-> NotesAbsent, loc |-> LocAbsent]

Dash(d) == DateText("-", 3, d, 2024)
Slash(d) == DateText("/", 3, d, 2024)

TreeMissing == [ok |-> FALSE, entries |-> <<>>]
TreeEmpty == [ok |-> TRUE, entries |-> <<>>]
TreeScenario ==
    [ok |-> TRUE, entries |-> <<
        Dir("Acme", Notes(<<Line(Slash(1), "pens on desk"),
                            Line(Slash(2), "Desk clean - meets compliance")>>), LocAbsent)>>]
TreeDash ==
    [ok |-> TRUE, entries |-> <<
        Dir("Acme", Notes(<<Line(Dash(1), "pens on desk"),
                            Line(Dash(2), "Desk clean - meets compliance")>>), Loc("HQ\n"))>>]
TreeMixed ==
    [ok |-> TRUE, entries |-> <<
        PlainFile("notes.txt"),
        Dir("Acme", Notes(<<Line(Dash(2), "pens on desk")>>), LocAbsent),
        Dir("Bob Lee", Notes(<<Line(Dash(1), "papers"), Line(Dash(1), "mug")>>), LocUnreadable)>>]
TreeSkips ==
    [ok |-> TRUE, entries |-> <<
        Dir("Acme", NotesAbsent, Loc("HQ\n")),
        Dir("Bob Lee", NotesUnreadable, LocAbsent)>>]
TreeIsolate ==
    [ok |-> TRUE, entries |-> <<
        Dir("Acme", NotesUnreadable, LocAbsent),
        Dir("Bob Lee", Notes(<<Line(Dash(2), "Desk clean - meets compliance"),
                               BadLine,
                               Line(PlainText(""), "N/A"),
                               Line(Dash(3), "mug on desk")>>), Loc("HQ\n"))>>]
TreeAbsentFirst ==
    [ok |-> TRUE, entries |-> <<
        Dir("Bob Lee", NotesAbsent, LocAbsent),
        Dir("Acme", Notes(<<Line(Dash(1), "pens on desk")>>), LocAbsent)>>]

Trees ==
    {TreeMissing, TreeEmpty, TreeScenario, TreeDash, TreeMixed, TreeSkips,
     TreeIsolate, TreeAbsentFirst}

\* ------------------------------------------------------------- state

VARIABLES
    variant,            \* the program that runs: main.py, gemini_process.py, dsa.py, Main2.py
    pc,                 \* "startup" | "idle" | "walk" | "loop" | "exited"
    exc,                \* exception that escaped the most recent operation, or "none"
    listing,            \* consolidate_cdnotes: the os.listdir result being walked
    subidx,             \* consolidate_cdnotes: position in listing
    consolidated_data,  \* consolidate_cdnotes: rows of the frame being built
    consolidated_csv,   \* file consolidated_cdnotes.csv
    ai_processed_csv,   \* file ai_processed_data.csv (the filtered table)
    output_with_ai_csv, \* file output_with_ai.csv (the report; Main2.py: output_with_ai_pass_fail.csv)
    pdf_reports,        \* directory pdf_reports: the documents, one per file name
    clean_desk_report,  \* the Clean_Desk_Report-<start>-<end>.csv file save_csv_report wrote
    columns,            \* classifier: data.columns
    data,               \* classifier: rows of the frame being classified
    index,              \* classifier: position of the loop over data.iterrows()
    generate_pdfs,      \* the generate-documents flag the classifier was last called with
    picked,             \* the dates of the most recent run_ai_on_csv call, or <<>>
    replies,            \* what the LLM endpoint did at each call of the most recent run
    events,             \* the LLM calls, documents and report write of that run, in order
    nrows,              \* number of rows the most recent run handed to the classifier
    calls,              \* LLM calls made so far
    logged,             \* logging / print entries of the most recent operation
    console             \* console widget entries of the most recent operation

consVars == <<listing, subidx, consolidated_data>>
fileVars == <<consolidated_csv, ai_processed_csv, output_with_ai_csv, pdf_reports,
              clean_desk_report>>
runVars == <<columns, data, index, generate_pdfs, picked, replies, events, nrows, calls>>
vars == <<variant, pc, exc, consVars, fileVars, runVars, logged, console>>

\* -------------------------------------------------------- consolidator

ConsolidatedColumns(v) ==
    IF v = "gemini" THEN <<"Employee Name", "Record Date", "Note", "Location">>
    ELSE <<"Employee Name", "Record Date", "Note">>

\* wfboxfile.read().strip()
StripLoc(text) == CASE text = "HQ\n" -> "HQ" [] OTHER -> text

\* The location of an employee folder (gemini_process.py only).
Location(e) == IF e.loc.st = "ok" THEN StripLoc(e.loc.text) ELSE "Unknown Location"

\* on_bad_lines="skip"
GoodLines(lines) == SelectSeq(lines, LAMBDA l : ~l.bad)

\* One well-formed line of cdnotes.csv as a row of the consolidated frame.
NoteRow(v, e, l) ==
    IF v = "gemini"
    THEN Row4(e.name, AsTypeStr(ReadCsvCell(l.date)), ReadCsvNote(l.note), Location(e))
    ELSE Row3(e.name, AsTypeStr(ReadCsvCell(l.date)), ReadCsvNote(l.note))

\* mutant: the lines of a note file are taken last to first
EntryRowsReversed(v, e) ==
    IF ~e.isDir \/ e.notes.st # "ok" THEN <<>>
    ELSE LET g == GoodLines(e.notes.lines)
         IN  [i \in 1..Len(g) |-> NoteRow(v, e, g[Len(g) + 1 - i])]

\* The rows one directory entry contributes: none for a non-directory, for a
\* folder without cdnotes.csv and for a cdnotes.csv that cannot be read.
EntryRows(v, e) ==
    IF ~e.isDir \/ e.notes.st # "ok" THEN <<>>
    ELSE LET g == GoodLines(e.notes.lines)
         IN  [i \in 1..Len(g) |-> NoteRow(v, e, g[i])]

\* The log entries of one directory entry.
EntryLogs(v, e) ==
    IF ~e.isDir THEN {"skip_nondir"}
    ELSE IF e.notes.st = "absent" THEN {"notes_missing"}
    ELSE (IF v = "gemini" /\ e.loc.st = "unreadable" THEN {"loc_read_error"} ELSE {})
         \cup (IF e.notes.st = "unreadable" THEN {"read_error"} ELSE {"processed"})

RECURSIVE WalkRows(_, _)
WalkRows(v, entries) ==
    IF entries = <<>> THEN <<>>
    ELSE EntryRows(v, Head(entries)) \o WalkRows(v, Tail(entries))

\* mutant: the frame starts from the rows of the previous output
InitialFrameMerge(old) == IF old.exists THEN ReadCsv(old.rows) ELSE <<>>

\* consolidated_data = pd.DataFrame(columns=[...]): the frame starts empty
InitialFrame(old) == <<>>

\* mutant: no empty check before to_csv
SavedFileNoCheck(old, cols, rows, ok) == IF ok THEN File(cols, ToCsv(rows)) ELSE old

\* mutant: the file is written while the last row is not yet in the frame
SavedFileEarly(old, cols, rows, ok) ==
    IF rows = <<>> \/ ~ok THEN old ELSE File(cols, ToCsv(SubSeq(rows, 1, Len(rows) - 1)))

\* the consolidated file after the empty check and the guarded to_csv
SavedFile(old, cols, rows, ok) ==
    IF rows = <<>> \/ ~ok THEN old ELSE File(cols, ToCsv(rows))

\* consolidate_cdnotes up to os.listdir: a root that cannot be listed raises.
\* gemini_process.py consolidates once, at startup; for the other programs the
\* model explores the consolidations that precede the first classification.
ConsolidateStart(tree) ==
    /\ variant \in Consolidators
    /\ pc = (IF variant = "gemini" THEN "startup" ELSE "idle")
    /\ calls = 0
    /\ consolidated_data' = InitialFrame(consolidated_csv)
    /\ logged' = {"start"}
    /\ picked' = <<>>
    /\ console' = (IF variant = "dsa" THEN {} ELSE {"using_directory"})
    /\ IF tree.ok
       THEN /\ listing' = tree.entries
            /\ subidx' = 1
            /\ pc' = "walk"
            /\ exc' = "none"
       ELSE /\ exc' = "FileNotFoundError"
            /\ pc' = (IF variant = "gemini" THEN "exited" ELSE "idle")
            /\ UNCHANGED <<listing, subidx>>
    /\ UNCHANGED <<variant, fileVars, columns, data, index, generate_pdfs, replies,
                   events, nrows, calls>>

\* one iteration of the loop over os.listdir(root_directory)
ConsolidateEntry ==
    /\ pc = "walk"
    /\ subidx <= Len(listing)
    /\ consolidated_data' = consolidated_data \o EntryRows(variant, listing[subidx])
    /\ logged' = logged \cup EntryLogs(variant, listing[subidx])
    /\ subidx' = subidx + 1
    /\ UNCHANGED <<variant, pc, exc, listing, fileVars, runVars, console>>

\* after the loop: the empty check and the guarded to_csv
ConsolidateFinish ==
    /\ pc = "walk"
    /\ subidx > Len(listing)
    /\ \E ok \in BOOLEAN :
        /\ consolidated_data = <<>> => ok
        /\ consolidated_csv' =
               SavedFile(consolidated_csv, ConsolidatedColumns(variant), consolidated_data, ok)
        /\ logged' = logged \cup
               (IF consolidated_data = <<>> THEN {"no_data"}
                ELSE IF ok THEN {"saved"} ELSE {"save_error"})
    /\ pc' = "idle"
    /\ listing' = <<>>
    /\ subidx' = 0
    /\ consolidated_data' = <<>>
    /\ UNCHANGED <<variant, exc, ai_processed_csv, output_with_ai_csv, pdf_reports,
                   clean_desk_report, runVars, console>>

\* -------------------------------------------------------- LLM endpoints

None == [st |-> "none"]
Raised(e) == [st |-> "raise", exc |-> e]
Text(t) == [st |-> "text", text |-> t]

TransportError == [kind |-> "transport_error"]
HttpError == [kind |-> "http_error"]

\* Ollama: a stream of lines, each a JSON object (with or without the
\* "response" field) or not JSON at all.
JsonLine(t) == [json |-> TRUE, has |-> TRUE, response |-> t]
JsonNoField == [json |-> TRUE, has |-> FALSE, response |-> <<>>]
NonJsonLine == [json |-> FALSE, has |-> FALSE, response |-> <<>>]
Stream(lines) == [kind |-> "stream", lines |-> lines]

OllamaOutcomes ==
    {TransportError, HttpError,
     Stream(<<JsonLine(TxtFail1), JsonLine(TxtFail2)>>),
     Stream(<<JsonLine(TxtPass)>>),
     Stream(<<NonJsonLine, JsonLine(TxtBoth), JsonNoField>>),
     Stream(<<JsonLine(TxtNeither)>>),
     Stream(<<JsonLine(TxtBlank)>>),
     Stream(<<>>)}

RECURSIVE ConcatResponses(_)
ConcatResponses(lines) ==
    IF lines = <<>> THEN <<>>
    ELSE (IF Head(lines).json /\ Head(lines).has THEN Head(lines).response ELSE <<>>)
         \o ConcatResponses(Tail(lines))

\* mutant: the concatenated reply is returned without strip()
query_ollama_nostrip(o) ==
    IF o.kind \in {"transport_error", "http_error"} THEN None
    ELSE Text(ConcatResponses(o.lines))

query_ollama(o) ==
    IF o.kind \in {"transport_error", "http_error"} THEN None
    ELSE Text(Strip(ConcatResponses(o.lines)))

\* Gemini: one JSON object, with or without the "candidates" key; a candidate
\* with or without "content".
Candidate(t) == [has |-> TRUE, content |-> t]
CandidateNoContent == [has |-> FALSE, content |-> <<>>]
Body(cands) == [kind |-> "json", hasKey |-> TRUE, candidates |-> cands]
BodyNoCandidates == [kind |-> "json", hasKey |-> FALSE, candidates |-> <<>>]

GeminiOutcomes ==
    {TransportError, HttpError,
     BodyNoCandidates,
     Body(<<>>),
     Body(<<CandidateNoContent>>),
     Body(<<Candidate(TxtFail)>>),
     Body(<<Candidate(TxtPass)>>),
     Body(<<Candidate(TxtBoth)>>),
     Body(<<Candidate(TxtNeither)>>),
     Body(<<Candidate(TxtBlank)>>),
     Body(<<Candidate(TxtNA)>>)}

query_gemini(o) ==
    IF o.kind \in {"transport_error", "http_error"} THEN None
    ELSE LET cands == IF o.hasKey THEN o.candidates ELSE <<CandidateNoContent>>
         IN  IF cands = <<>> THEN Raised("IndexError")
             ELSE Text(Strip(IF cands[1].has THEN cands[1].content ELSE <<>>))

Outcomes(v) == IF v = "gemini" THEN GeminiOutcomes ELSE OllamaOutcomes

\* what the query function logs (Main2.py: prints) in its except clauses:
\* the RequestException handler has an entry, the JSONDecodeError one passes
QueryLogs(o) ==
    IF o.kind \in {"transport_error", "http_error"} THEN {"request_error"} ELSE {}
Query(v, o) == IF v = "gemini" THEN query_gemini(o) ELSE query_ollama(o)

\* if ai_response:
Truthy(ai) == ai.st = "text" /\ ai.text # <<>>

\* ----------------------------------------------------------- classifier

\* mutant: "fail" is looked for before "pass"
VerdictFailFirst(text) ==
    IF Contains(FailWord, Lower(text)) THEN "FAILED"
    ELSE IF Contains(PassWord, Lower(text)) THEN "PASSED"
    ELSE "UNKNOWN"

\* the pass / fail / unknown rule on a non-empty reply
Verdict(text) ==
    IF Contains(PassWord, Lower(text)) THEN "PASSED"
    ELSE IF Contains(FailWord, Lower(text)) THEN "FAILED"
    ELSE "UNKNOWN"

Compliant(pass_fail) ==
    CASE pass_fail = "PASSED" -> "YES"
      [] pass_fail = "FAILED" -> "NO"
      [] OTHER -> "UNKNOWN"

\* the cells the loop sets in one row, for a reply and for no reply
ClassifiedCells(v, ai) ==
    IF Truthy(ai)
    THEN ("AI_Response" :> Strip(ai.text)) @@ ("AI_P_F" :> Verdict(ai.text))
         @@ (IF v = "gemini" THEN ("Compliant" :> Compliant(Verdict(ai.text))) ELSE <<>>)
    ELSE ("AI_Response" :> ErrorOrNoResponse) @@ ("AI_P_F" :> "UNKNOWN")
         @@ (IF v = "gemini" THEN ("Compliant" :> "UNKNOWN") ELSE <<>>)

\* mutant: a document for every row with a reply
WantsPdfAnyVerdict(v, ai, flag) == Truthy(ai) /\ (v = "gemini" => flag)

\* whether the loop calls generate_pdf for the row
WantsPdf(v, ai, flag) ==
    Truthy(ai) /\ Verdict(ai.text) = "FAILED" /\ (v = "gemini" => flag)

\* row.get(column, default)
RowGet(r, c, default) == IF c \in DOMAIN r THEN r[c] ELSE default

\* the column names the loop passes to row.get
EmployeeColumn(v) == IF v = "main2" THEN "Employee_Name" ELSE "Employee Name"
RecordDateColumn(v) == IF v = "main2" THEN "Record_Date" ELSE "Record Date"
NotesColumn(v) == IF v = "main2" THEN "Notes" ELSE "Note"

\* the column the classifier analyses
AnalysisColumn(v) == IF v = "main2" THEN "notes" ELSE "Note"

\* generate_pdf: the exception the date handling lets through, or "none".
\* strptime on a non-string raises TypeError, which Main2.py's
\* "except ValueError" does not catch.
DateRaises(v, record_date) ==
    IF v = "main2" /\ record_date.kind \notin {"date", "text"} THEN "TypeError" ELSE "none"

\* mutant: the document date is read with the filter's format %m-%d-%Y
FormattedDateFilterFormat(v, record_date) ==
    LET p == StrptimeMDY(record_date)
    IN  IF p.kind = "ts" THEN FormatMDY(p) ELSE PlainText("Unknown_Date")

\* generate_pdf: the date part of the file name
FormattedDate(v, record_date) ==
    LET p == IF v = "gemini" THEN StrptimeYMD(record_date)
             ELSE IF v = "main2" THEN StrptimeDMY(record_date)
             ELSE DateutilParse(record_date)
    IN  IF p.kind = "ts" THEN FormatMDY(p) ELSE PlainText("Unknown_Date")

\* generate_pdf: "{formatted_date}-{employee_name with underscores}-CD.PDF"
FileName(v, employee_name, record_date) ==
    [date |-> FormattedDate(v, record_date), emp |-> ReplaceSpaces(employee_name)]

\* generate_pdf: the document written for a row
Document(v, r, ai_response) ==
    LET employee_name == RowGet(r, EmployeeColumn(v), "Unknown")
        record_date == RowGet(r, RecordDateColumn(v), PlainText("Unknown"))
    IN  [name |-> FileName(v, employee_name, record_date),
         employee_name |-> employee_name,
         record_date |-> record_date,
         notes |-> RowGet(r, NotesColumn(v), "No Notes"),
         ai_response |-> ai_response]

\* mutant: an existing file of the same name is kept
WriteDocumentKeepFirst(dir, doc) ==
    IF \E d \in dir : d.name = doc.name THEN dir ELSE dir \cup {doc}

\* pdf.output(pdf_path): a file of the same name is replaced
WriteDocument(dir, doc) == {d \in dir : d.name # doc.name} \cup {doc}

\* generate_pdf: what it logs (Main2.py has no warning for a bad date)
PdfLogs(v, doc) ==
    (IF doc.name.date = PlainText("Unknown_Date") /\ v # "main2"
     THEN {"date_warning"} ELSE {})
    \cup {"pdf_generated"}

\* pd.to_datetime(column, format="%m-%d-%Y", errors="coerce")
ToDatetime(v) == IF v.kind = "NaN" THEN NaT ELSE StrptimeMDY(v)

\* mutant: the end of the range is exclusive
InRangeExclusive(ts, start, end) ==
    DateLE(start, ts) /\ DateLE(ts, end) /\ DateKey(ts) # DateKey(end)

\* (data["Record Date"] >= start_date) & (data["Record Date"] <= end_date)
InRange(ts, start, end) == DateLE(start, ts) /\ DateLE(ts, end)

\* run_ai_on_csv: the frame after the date conversion and the range filter
FilterRows(rows, start_date, end_date) ==
    LET conv == [i \in 1..Len(rows) |->
                    [rows[i] EXCEPT !["Record Date"] = ToDatetime(@)]]
    IN  SelectSeq(conv, LAMBDA r :
            InRange(r["Record Date"], StrptimeMDY(start_date), StrptimeMDY(end_date)))

\* the dates the operator can pick in the DateEntry widgets (mm-dd-yyyy)
Picks == {Dash(1), Dash(2)}

\* mutant: the filtered table is written before the empty check
IntermediateFileAlways(old, cols, filtered_data) == File(cols, ToCsv(filtered_data))

\* ai_processed_data.csv after the empty check and filtered_data.to_csv
IntermediateFile(old, cols, filtered_data) ==
    IF filtered_data = <<>> THEN old ELSE File(cols, ToCsv(filtered_data))

\* how an operation of the classifier ends: locals dropped, back in the event loop
RunEnds(logs, cons) ==
    /\ pc' = "idle"
    /\ exc' = "none"
    /\ columns' = <<>>
    /\ data' = <<>>
    /\ index' = 0
    /\ logged' = logs
    /\ console' = cons

\* how the script Main2.py ends: with the exception that escaped, or normally
Exits(e, logs) ==
    /\ pc' = "exited"
    /\ exc' = e
    /\ columns' = <<>>
    /\ data' = <<>>
    /\ index' = 0
    /\ logged' = logs
    /\ console' = console

\* an exception leaves process_csv_for_pass_fail_and_generate_pdfs: the GUI
\* programs catch it in run_ai_on_csv and show it, Main2.py dies of it
RunAborts(e, logs, cons) ==
    IF variant = "main2" THEN Exits(e, logs)
    ELSE RunEnds(logs \cup {"Error"}, cons \cup {"Error"})

\* what goes to the console widget (Main2.py has none and prints instead)
Cons(tags) == IF variant = "main2" THEN {} ELSE tags

\* process_csv_for_pass_fail_and_generate_pdfs up to the loop
ProcessStart(path_file, gen, logs, cons) ==
    LET frame == ReadCsv(path_file.rows)
    IN  IF AnalysisColumn(variant) \notin Range(path_file.cols)
        THEN /\ RunAborts("KeyError", logs \cup ({"columns"} \ Cons({"columns"})),
                           cons \cup Cons({"columns"}))
             /\ UNCHANGED <<generate_pdfs, replies, events, nrows, calls>>
        ELSE /\ calls + Len(frame) <= MaxCalls
             /\ pc' = "loop"
             /\ exc' = "none"
             /\ columns' = path_file.cols \o <<"AI_P_F", "AI_Response">>
             /\ data' = [i \in 1..Len(frame) |->
                            frame[i] @@ ("AI_P_F" :> "") @@ ("AI_Response" :> <<>>)]
             /\ index' = 1
             /\ generate_pdfs' = gen
             /\ replies' = <<>>
             /\ events' = <<>>
             /\ nrows' = Len(frame)
             /\ calls' = calls + Len(frame)
             /\ logged' = logs \cup {"columns"}
             /\ console' = cons \cup Cons({"columns", "processing"})

\* run_ai_on_csv (main.py, gemini_process.py) up to the classifier's loop.
\* The model explores the runs that precede the first saved report copy.
run_ai_on_csv(start_date, end_date, gen) ==
    /\ pc = "idle"
    /\ variant \in {"main", "gemini"}
    /\ clean_desk_report = NoFile
    /\ variant = "main" => gen
    /\ picked' = <<start_date, end_date>>
    /\ IF ~consolidated_csv.exists \/ "Record Date" \notin Range(consolidated_csv.cols)
       THEN /\ RunEnds({"Error"}, {"Error"})
            /\ UNCHANGED <<ai_processed_csv, generate_pdfs, replies, events, nrows, calls>>
       ELSE LET filtered_data ==
                    FilterRows(ReadCsv(consolidated_csv.rows), start_date, end_date)
                written ==
                    IntermediateFile(ai_processed_csv, consolidated_csv.cols, filtered_data)
            IN  /\ ai_processed_csv' = written
                /\ IF filtered_data = <<>>
                   THEN /\ RunEnds({"loaded", "no_records"}, {"loaded", "no_records"})
                        /\ UNCHANGED <<generate_pdfs, replies, events, nrows, calls>>
                   ELSE ProcessStart(written, gen, {"loaded", "filtered"},
                                     {"loaded", "filtered"})
    /\ UNCHANGED <<variant, consVars, consolidated_csv, output_with_ai_csv, pdf_reports,
                   clean_desk_report>>

\* run_ai_on_csv of dsa.py: the filter and the simulated processing
run_ai_on_csv_dsa(start_date, end_date) ==
    /\ pc = "idle"
    /\ variant = "dsa"
    /\ IF ~consolidated_csv.exists \/ "Record Date" \notin Range(consolidated_csv.cols)
       THEN /\ console' = {"Error"}
            /\ UNCHANGED ai_processed_csv
       ELSE LET filtered_data ==
                    FilterRows(ReadCsv(consolidated_csv.rows), start_date, end_date)
                processed == [i \in 1..Len(filtered_data) |->
                                 filtered_data[i] @@ ("AI_Result" :> "Processed by AI")]
            IN  IF filtered_data = <<>>
                THEN /\ console' = {"loaded", "no_records"}
                     /\ UNCHANGED ai_processed_csv
                ELSE /\ ai_processed_csv' =
                            File(consolidated_csv.cols \o <<"AI_Result">>, ToCsv(processed))
                     /\ console' = {"loaded", "filtered", "saved"}
    /\ logged' = {}
    /\ exc' = "none"
    /\ picked' = <<start_date, end_date>>
    /\ UNCHANGED <<variant, pc, consVars, consolidated_csv, output_with_ai_csv,
                   pdf_reports, clean_desk_report, columns, data, index, generate_pdfs,
                   replies, events, nrows, calls>>

Event(op, row, ok) == [op |-> op, row |-> row, ok |-> ok]

\* one iteration of the loop over data.iterrows(): the LLM call, the verdict,
\* the document of a FAILED row
ClassifyRow(o, pdf_ok) ==
    /\ pc = "loop"
    /\ index <= Len(data)
    /\ o \in Outcomes(variant)
    /\ replies' = Append(replies, o)
    /\ LET ai == Query(variant, o)
           row == data[index]
           doc == Document(variant, row, Strip(ai.text))
           called == Append(events, Event("llm", index, ai.st # "raise"))
       IN  IF ai.st = "raise"
           THEN /\ pdf_ok
                /\ events' = called
                /\ RunEnds(logged \cup {"query", "Error"}, console \cup {"query", "Error"})
                /\ UNCHANGED pdf_reports
           ELSE IF WantsPdf(variant, ai, generate_pdfs) /\ ~pdf_ok
           THEN /\ events' = Append(called, Event("pdf", index, FALSE))
                /\ RunAborts("OSError", logged \cup {"query"}, console \cup Cons({"query"}))
                /\ UNCHANGED pdf_reports
           ELSE IF WantsPdf(variant, ai, generate_pdfs)
                   /\ DateRaises(variant, doc.record_date) # "none"
           THEN /\ pdf_ok
                /\ events' = Append(called, Event("pdf", index, FALSE))
                /\ RunAborts(DateRaises(variant, doc.record_date),
                             logged \cup {"query"}, console \cup Cons({"query"}))
                /\ UNCHANGED pdf_reports
           ELSE /\ pdf_ok
                /\ data' = [data EXCEPT ![index] = ClassifiedCells(variant, ai) @@ row]
                /\ index' = index + 1
                /\ pdf_reports' =
                       IF WantsPdf(variant, ai, generate_pdfs)
                       THEN WriteDocument(pdf_reports, doc) ELSE pdf_reports
                /\ events' =
                       IF WantsPdf(variant, ai, generate_pdfs)
                       THEN Append(called, Event("pdf", index, TRUE)) ELSE called
                /\ logged' = logged \cup {"query"} \cup QueryLogs(o)
                       \cup (IF WantsPdf(variant, ai, generate_pdfs)
                             THEN PdfLogs(variant, doc) ELSE {})
                       \cup (IF Truthy(ai) THEN {"response"} ELSE {"no_valid_response"})
                /\ console' = console \cup Cons({"query"}
                       \cup (IF Truthy(ai) THEN {"response"} ELSE {"no_valid_response"}))
                /\ UNCHANGED <<pc, exc, columns>>
    /\ UNCHANGED <<variant, consVars, consolidated_csv, ai_processed_csv,
                   output_with_ai_csv, clean_desk_report, generate_pdfs, picked, nrows,
                   calls>>

\* rename(columns={old: new})
RenameCol(r, old, new) ==
    IF old \in DOMAIN r
    THEN [c \in (DOMAIN r \ {old}) \cup {new} |-> IF c = new THEN r[old] ELSE r[c]]
    ELSE r

RenameInColumns(cols, old, new) ==
    [i \in 1..Len(cols) |-> IF cols[i] = old THEN new ELSE cols[i]]

RequiredColumns ==
    <<"Employee Name", "Last Clean Desk Date", "Location", "Compliant", "Note", "AI_Response">>

Placeholder(c) == IF c \in DateColumns THEN PlainText("Unknown") ELSE "Unknown"

\* mutant: the required columns the frame lacks are not filled in
ProjectRowPresentOnly(r) ==
    LET renamed == RenameCol(r, "Record Date", "Last Clean Desk Date")
    IN  [c \in Range(RequiredColumns) \cap DOMAIN renamed |-> renamed[c]]

\* gemini_process.py: rename, fill the missing required columns, project
ProjectRow(r) ==
    LET renamed == RenameCol(r, "Record Date", "Last Clean Desk Date")
    IN  [c \in Range(RequiredColumns) |->
            IF c \in DOMAIN renamed THEN renamed[c] ELSE Placeholder(c)]

\* main.py: AI_P_F and AI_Response first, then the other columns in their order
ColumnOrder(cols) ==
    <<"AI_P_F", "AI_Response">>
    \o SelectSeq(cols, LAMBDA c : c \notin {"AI_P_F", "AI_Response"})

\* mutant: rows without a PASSED or FAILED verdict are left out of the report
ReportVerdictsOnly(v, cols, rows) ==
    LET kept == SelectSeq(rows, LAMBDA r : r["AI_P_F"] # "UNKNOWN")
    IN  IF v = "gemini"
        THEN File(RequiredColumns, ToCsv([i \in 1..Len(kept) |-> ProjectRow(kept[i])]))
        ELSE File(ColumnOrder(cols), ToCsv(kept))

\* the report the classifier writes for the frame it holds
Report(v, cols, rows) ==
    IF v = "gemini"
    THEN File(RequiredColumns, ToCsv([i \in 1..Len(rows) |-> ProjectRow(rows[i])]))
    ELSE File(ColumnOrder(cols), ToCsv(rows))

\* after the loop: the report is written (main.py, Main2.py: one unguarded
\* to_csv; gemini_process.py: two guarded ones of the same frame)
ClassifyFinish(ok1, ok2) ==
    /\ pc = "loop"
    /\ index > Len(data)
    /\ variant \in {"main", "main2"} => ok2 = ok1
    /\ events' = Append(events, Event("report", 0, ok1 \/ ok2))
    /\ output_with_ai_csv' =
           IF ok1 \/ ok2 THEN Report(variant, columns, data) ELSE output_with_ai_csv
    /\ IF variant = "main2"
       THEN (IF ok1 THEN Exits("none", logged \cup {"saved"}) ELSE Exits("OSError", logged))
       ELSE IF variant = "main"
       THEN RunEnds(logged \cup (IF ok1 THEN {"saved"} ELSE {"Error"}),
                    console \cup (IF ok1 THEN {"saved"} ELSE {"Error"}))
       ELSE RunEnds(logged \cup (IF ok1 \/ ok2 THEN {"saved"} ELSE {}),
                    console \cup (IF ok1 /\ ok2 THEN {"saved"}
                                  ELSE IF ok1 \/ ok2 THEN {"saved", "save_error"}
                                  ELSE {"save_error"}))
    /\ UNCHANGED <<variant, consVars, consolidated_csv, ai_processed_csv, pdf_reports,
                   clean_desk_report, generate_pdfs, picked, replies, nrows, calls>>

\* what can fail in save_csv_report
SaveFaults == {"none", "io", "open"}

\* a file save_csv_report wrote, with the dates in its name
SavedAs(start_date, end_date, cols, rows) ==
    [exists |-> TRUE, name |-> <<start_date, end_date>>, cols |-> cols, rows |-> rows]

\* save_csv_report (gemini_process.py): output_with_ai.csv is read and written
\* again under the name Clean_Desk_Report-<start>-<end>.csv, and opened when
\* asked to; any error goes to the console.  fault is what fails: nothing,
\* the read or the write ("io"), or the viewer after the file was written
\* ("open"); a missing output_with_ai.csv fails the read by itself.  The
\* model explores the first successful save of a session.
save_csv_report(start_date, end_date, open_file, fault) ==
    /\ variant = "gemini"
    /\ pc = "idle"
    /\ clean_desk_report = NoFile
    /\ fault = "io" => output_with_ai_csv.exists
    /\ fault = "open" => (open_file /\ output_with_ai_csv.exists)
    /\ IF output_with_ai_csv.exists /\ fault # "io"
       THEN /\ clean_desk_report' =
                   SavedAs(start_date, end_date, output_with_ai_csv.cols,
                           ToCsv(ReadCsv(output_with_ai_csv.rows)))
            /\ console' = {"saved_as"}
                   \cup (IF ~open_file THEN {}
                         ELSE IF fault = "open" THEN {"save_report_error"}
                         ELSE {"opening"})
       ELSE /\ clean_desk_report' = clean_desk_report
            /\ console' = {"save_report_error"}
    /\ logged' = {}
    /\ UNCHANGED <<variant, pc, exc, consVars, consolidated_csv, ai_processed_csv,
                   output_with_ai_csv, pdf_reports, runVars>>

\* a row of the table Main2.py is pointed at
Main2Row(emp, date, note) ==
    ("Employee_Name" :> emp) @@ ("Record_Date" :> date) @@ ("notes" :> note)

\* CD-AI-TEST.csv: a day/month/year date and a date in another format
TableDMY ==
    File(<<"Employee_Name", "Record_Date", "notes">>,
         <<Main2Row("Acme", DateText("/", 1, 3, 2024), "pens on desk"),
           Main2Row("Bob Lee", Dash(1), "mug")>>)

\* CD-AI-TEST.csv with an empty date cell
TableNoDate ==
    File(<<"Employee_Name", "Record_Date", "notes">>,
         <<Main2Row("Acme", PlainText(""), "pens on desk")>>)

\* CD-AI-TEST.csv with the analysed column only
TableBare == File(<<"notes">>, <<("notes" :> "pens on desk")>>)

\* CD-AI-TEST.csv without the analysed column
TableNoNotes ==
    File(<<"Employee_Name", "Record_Date">>,
         <<("Employee_Name" :> "Acme") @@ ("Record_Date" :> DateText("/", 1, 3, 2024))>>)

Main2Tables == {TableDMY, TableNoDate, TableBare, TableNoNotes}

\* Main2.py: the script calls the classifier on its configured table
Main2Start(table) ==
    /\ variant = "main2"
    /\ pc = "idle"
    /\ ProcessStart(table, TRUE, {}, {})
    /\ UNCHANGED <<variant, consVars, fileVars, picked>>

\* What an earlier session's consolidation of a tree leaves on disk.
ConsolidatedOf(v, tree) ==
    IF ~tree.ok \/ WalkRows(v, tree.entries) = <<>> THEN NoFile
    ELSE File(ConsolidatedColumns(v), ToCsv(WalkRows(v, tree.entries)))

\* A table at the input path that some other tool wrote: no Note column.
ForeignCsv ==
    File(<<"Employee Name", "Record Date">>,
         <<("Employee Name" :> "Acme") @@ ("Record Date" :> Dash(1))>>)

Init ==
    /\ variant \in Variants
    /\ pc = (IF variant = "gemini" THEN "startup" ELSE "idle")
    /\ exc = "none"
    /\ listing = <<>>
    /\ subidx = 0
    /\ consolidated_data = <<>>
    /\ consolidated_csv \in
           IF variant = "main2" THEN {NoFile}
           ELSE {ConsolidatedOf(variant, t) : t \in Trees}
                \cup {ForeignCsv, ConsolidatedOf("main", TreeDash)}
    /\ ai_processed_csv = NoFile
    /\ output_with_ai_csv = NoFile
    /\ pdf_reports = {}
    /\ clean_desk_report = NoFile
    /\ columns = <<>>
    /\ data = <<>>
    /\ index = 0
    /\ generate_pdfs = TRUE
    /\ picked = <<>>
    /\ replies = <<>>
    /\ events = <<>>
    /\ nrows = 0
    /\ calls = 0
    /\ logged = {}
    /\ console = {}

Next ==
    \/ \E tree \in Trees : ConsolidateStart(tree)
    \/ ConsolidateEntry
    \/ ConsolidateFinish
    \/ \E s \in Picks, e \in Picks, gen \in BOOLEAN : run_ai_on_csv(s, e, gen)
    \/ \E s \in Picks, e \in Picks : run_ai_on_csv_dsa(s, e)
    \/ \E o \in GeminiOutcomes \cup OllamaOutcomes, pdf_ok \in BOOLEAN :
            ClassifyRow(o, pdf_ok)
    \/ \E ok1 \in BOOLEAN, ok2 \in BOOLEAN : ClassifyFinish(ok1, ok2)
    \/ \E table \in Main2Tables : Main2Start(table)
    \/ \E s \in Picks, e \in Picks, open_file \in BOOLEAN, fault \in SaveFaults :
            save_csv_report(s, e, open_file, fault)

Spec == Init /\ [][Next]_vars

\* ------------------------------------------------------------ properties

\* the text an endpoint outcome carries, before any trimming
RawText(o) ==
    IF o.kind = "stream" THEN ConcatResponses(o.lines)
    ELSE IF o.kind = "json" /\ o.hasKey /\ o.candidates # <<>> /\ o.candidates[1].has
    THEN o.candidates[1].content
    ELSE <<>>

IsBlank(t) == \A i \in 1..Len(t) : IsSpace(t[i])

\* the call failed in transport or with an HTTP error status
CallFailed(o) == o.kind \in {"transport_error", "http_error"}

\* the body has a candidates list with nothing in it
LacksCandidates(o) == o.kind = "json" /\ o.hasKey /\ o.candidates = <<>>

\* the endpoint answered with a text that is not blank
HasReply(o) == ~CallFailed(o) /\ ~LacksCandidates(o) /\ ~IsBlank(RawText(o))

\* the call failed, or the endpoint answered with nothing but white space
NoReply(o) == CallFailed(o) \/ (~LacksCandidates(o) /\ IsBlank(RawText(o)))

HasWord(w, t) == Contains(w, Lower(t))

VerdictRule(pass_fail, t) ==
    /\ pass_fail = "PASSED" <=> HasWord(PassWord, t)
    /\ pass_fail = "FAILED" <=> (HasWord(FailWord, t) /\ ~HasWord(PassWord, t))
    /\ pass_fail = "UNKNOWN" <=> (~HasWord(FailWord, t) /\ ~HasWord(PassWord, t))

CompliantRule(compliant, t) ==
    /\ compliant = "YES" <=> HasWord(PassWord, t)
    /\ compliant = "NO" <=> (HasWord(FailWord, t) /\ ~HasWord(PassWord, t))
    /\ compliant = "UNKNOWN" <=> (~HasWord(FailWord, t) /\ ~HasWord(PassWord, t))

\* the most recent classifier run wrote its report
ReportWritten == events # <<>> /\ events[Len(events)] = Event("report", 0, TRUE)

\* no document write and no report write of the most recent run failed
NoIoFault == \A k \in 1..Len(events) : events[k].op \in {"pdf", "report"} => events[k].ok

PdfRows == {events[k].row : k \in {j \in 1..Len(events) : events[j].op = "pdf"}}

Classifies == variant \in {"main", "gemini"}

\* C1: for every row whose LLM reply is not empty, the verdict the classifier
\* sets and writes is PASSED iff the lower-cased reply contains "pass", FAILED
\* iff it contains "fail" and not "pass", UNKNOWN otherwise; the Gemini
\* program's Compliant is YES / NO / UNKNOWN accordingly.
C1_Verdict ==
    /\ (Classifies /\ pc = "loop") =>
          \A i \in 1..Len(replies) :
              HasReply(replies[i]) =>
                  /\ VerdictRule(data[i]["AI_P_F"], RawText(replies[i]))
                  /\ variant = "gemini" =>
                        CompliantRule(data[i]["Compliant"], RawText(replies[i]))
    /\ (Classifies /\ ReportWritten) =>
          \A i \in 1..Len(replies) :
              HasReply(replies[i]) =>
                  IF variant = "gemini"
                  THEN CompliantRule(output_with_ai_csv.rows[i]["Compliant"],
                                     RawText(replies[i]))
                  ELSE VerdictRule(output_with_ai_csv.rows[i]["AI_P_F"],
                                   RawText(replies[i]))

\* a written report whose first reply holds both words and whose second holds
\* "fail" only, in each program
C1_Witness ==
    /\ ReportWritten
    /\ Len(replies) = 2
    /\ HasWord(PassWord, RawText(replies[1])) /\ HasWord(FailWord, RawText(replies[1]))
    /\ HasWord(FailWord, RawText(replies[2])) /\ ~HasWord(PassWord, RawText(replies[2]))
    /\ \/ /\ variant = "gemini"
          /\ output_with_ai_csv.rows[1]["Compliant"] = "YES"
          /\ output_with_ai_csv.rows[2]["Compliant"] = "NO"
       \/ /\ variant = "main"
          /\ output_with_ai_csv.rows[1]["AI_P_F"] = "PASSED"
          /\ output_with_ai_csv.rows[2]["AI_P_F"] = "FAILED"

NoReplyCells(r) ==
    /\ r["AI_Response"] = ErrorOrNoResponse
    /\ "AI_P_F" \in DOMAIN r => r["AI_P_F"] = "UNKNOWN"
    /\ variant = "gemini" => r["Compliant"] = "UNKNOWN"

\* C2: a row whose LLM call fails in transport or returns empty or blank text
\* gets AI_Response "Error or No Response" and verdict UNKNOWN (Compliant
\* UNKNOWN in the Gemini program), in the frame and in the written report,
\* and generate_pdf is not called for it.
C2_NoReply ==
    Classifies =>
        \A i \in 1..Len(replies) :
            NoReply(replies[i]) =>
                /\ i \notin PdfRows
                /\ pc = "loop" => NoReplyCells(data[i])
                /\ ReportWritten => NoReplyCells(output_with_ai_csv.rows[i])

C2_Witness ==
    /\ ReportWritten
    /\ Len(replies) = 2
    /\ replies[1] = TransportError
    /\ ~CallFailed(replies[2]) /\ RawText(replies[2]) = TxtBlank
    /\ output_with_ai_csv.rows[1]["AI_Response"] = ErrorOrNoResponse
    /\ output_with_ai_csv.rows[2]["AI_Response"] = ErrorOrNoResponse
    /\ pdf_reports = {}

\* C3: whatever the LLM does row by row (a reply, a transport error, an HTTP
\* error status, an empty reply, a body without the expected fields), a run
\* that reached the classifier processes every row and writes the report.
C3_NeverAborts ==
    (Classifies /\ pc = "idle" /\ nrows > 0 /\ NoIoFault) =>
        /\ Len(replies) = nrows
        /\ ReportWritten
        /\ Len(output_with_ai_csv.rows) = nrows

ReplyFail == Stream(<<JsonLine(TxtFail1), JsonLine(TxtFail2)>>)
ReplyPass == Stream(<<JsonLine(TxtPass)>>)

\* C4: with Acme's notes ("03/01/2024", "pens on desk") and ("03/02/2024",
\* "Desk clean - meets compliance") consolidated, run_ai_on_csv from
\* 03-01-2024 to 03-02-2024 hands both rows to the classifier, and with the
\* LLM answering "Fail, items present" then "Pass, compliant" the verdicts
\* are FAILED and PASSED and exactly one document, 03-01-2024-Acme-CD.PDF,
\* is generated.
C4_Scenario ==
    (/\ variant = "main"
     /\ pc = "idle"
     /\ consolidated_csv = ConsolidatedOf("main", TreeScenario)
     /\ picked = <<Dash(1), Dash(2)>>) =>
        /\ Len(consolidated_csv.rows) = 2
        /\ \A i \in 1..2 : consolidated_csv.rows[i]["Employee Name"] = "Acme"
        /\ nrows = 2
        /\ (replies = <<ReplyFail, ReplyPass>> /\ NoIoFault) =>
              /\ ReportWritten
              /\ output_with_ai_csv.rows[1]["AI_P_F"] = "FAILED"
              /\ output_with_ai_csv.rows[2]["AI_P_F"] = "PASSED"
              /\ PdfRows = {1}
              /\ \E d \in pdf_reports : d.name = [date |-> Dash(1), emp |-> "Acme"]

\* the month-day-year reading of a date text, by its fields
IsMDY(t) == t.kind = "date" /\ t.sep = "-" /\ ValidYMD(t.c, t.a, t.b)
MDYKey(t) == t.c * 10000 + t.a * 100 + t.b

\* the rows of the consolidated file whose date is in the picked range
KeptRows(start, end) ==
    SelectSeq(consolidated_csv.rows, LAMBDA r :
        /\ IsMDY(r["Record Date"])
        /\ MDYKey(start) <= MDYKey(r["Record Date"])
        /\ MDYKey(r["Record Date"]) <= MDYKey(end))

Readable == consolidated_csv.exists /\ "Record Date" \in Range(consolidated_csv.cols)

SameRecord(r, k) ==
    /\ r["Employee Name"] = k["Employee Name"]
    /\ "Note" \in DOMAIN k => r["Note"] = ReadCsvNote(k["Note"])
    /\ r["Record Date"] =
           DateText("-", k["Record Date"].c, k["Record Date"].a, k["Record Date"].b)

\* C5: run_ai_on_csv keeps a row iff its Record Date parses as month-day-year
\* and start <= date <= end, both ends included; a row whose date does not
\* parse is dropped and never reaches the classifier.
C5_Filter ==
    /\ (Classifies /\ pc = "loop") =>
          LET kept == KeptRows(picked[1], picked[2])
          IN  /\ Len(data) = Len(kept)
              /\ Len(ai_processed_csv.rows) = Len(kept)
              /\ \A i \in 1..Len(kept) :
                    /\ SameRecord(data[i], kept[i])
                    /\ SameRecord(ai_processed_csv.rows[i], kept[i])
    /\ (pc = "idle" /\ picked # <<>> /\ Readable /\ "loaded" \in console) =>
          ("no_records" \in console <=> KeptRows(picked[1], picked[2]) = <<>>)

\* a run in which a row dated exactly on both ends of the range is kept while
\* a row whose date does not parse, and a row after the end, are dropped
C5_Witness ==
    /\ pc = "loop"
    /\ picked[1] = picked[2]
    /\ Len(data) = 1
    /\ data[1]["Record Date"] = DateText("-", picked[1].c, picked[1].a, picked[1].b)
    /\ \E i \in 1..Len(consolidated_csv.rows) :
           ~IsMDY(consolidated_csv.rows[i]["Record Date"])
    /\ \E i \in 1..Len(consolidated_csv.rows) :
           /\ IsMDY(consolidated_csv.rows[i]["Record Date"])
           /\ MDYKey(consolidated_csv.rows[i]["Record Date"]) > MDYKey(picked[2])

\* the step is a call of run_ai_on_csv
RunCalled ==
    \E s \in Picks, e \in Picks :
        \/ run_ai_on_csv_dsa(s, e)
        \/ \E gen \in BOOLEAN : run_ai_on_csv(s, e, gen)

\* C6: when no row is in the range, run_ai_on_csv reports it and returns: no
\* LLM call, no document, no file written (neither the filtered file nor the
\* report), the files of earlier runs as they were.
C6_EmptyRange ==
    [][(/\ RunCalled
        /\ picked' # <<>>
        /\ "loaded" \in console'
        /\ KeptRows(picked'[1], picked'[2]) = <<>>) =>
           /\ "no_records" \in console'
           /\ pc' = "idle"
           /\ UNCHANGED <<fileVars, replies, events, nrows, calls>>]_vars

\* an empty-range run after a run that left the filtered file, a report and a
\* document
C6_Witness ==
    /\ pc = "idle"
    /\ "no_records" \in console
    /\ picked # <<>> /\ Readable /\ KeptRows(picked[1], picked[2]) = <<>>
    /\ ai_processed_csv.exists
    /\ output_with_ai_csv.exists
    /\ pdf_reports # {}

\* C7: when the input table lacks the analysis column, the run aborts with
\* the missing-column error on the console, calls no LLM, generates no
\* document and leaves nothing on disk.
C7_MissingColumn ==
    (/\ Classifies
     /\ pc = "idle"
     /\ picked # <<>>
     /\ Readable
     /\ "Note" \notin Range(consolidated_csv.cols)
     /\ KeptRows(picked[1], picked[2]) # <<>>) =>
        /\ "Error" \in console
        /\ calls = 0
        /\ pdf_reports = {}
        /\ output_with_ai_csv = NoFile
        /\ ai_processed_csv = NoFile

\* the rows of the frame that carry an employee's name
RowsOf(rows, name) == SelectSeq(rows, LAMBDA r : r["Employee Name"] = name)

\* C8: no exception leaves consolidate_cdnotes, whatever the directory tree
\* (a root that is missing or cannot be listed included); an employee folder
\* whose note file is absent or unreadable contributes no row, every other
\* folder contributes its well-formed lines.
C8_NoException ==
    /\ variant \in Consolidators => exc = "none"
    /\ pc = "walk" =>
          \A k \in 1..(subidx - 1) :
              Len(RowsOf(consolidated_data, listing[k].name)) =
                  IF listing[k].isDir /\ listing[k].notes.st = "ok"
                  THEN Len(GoodLines(listing[k].notes.lines)) ELSE 0

\* C9: when no employee folder yields a row, consolidate_cdnotes writes
\* nothing to the output path, logs that there is nothing to consolidate and
\* returns without raising.
C9_NothingToConsolidate ==
    [][(/\ pc = "walk"
        /\ pc' = "idle"
        /\ \A k \in 1..Len(listing) :
              ~(listing[k].isDir /\ listing[k].notes.st = "ok"
                /\ GoodLines(listing[k].notes.lines) # <<>>)) =>
           /\ consolidated_csv' = consolidated_csv
           /\ "no_data" \in logged'
           /\ exc' = "none"]_vars

\* a walk over folders without readable notes has ended and the file of an
\* earlier consolidation is still there
C9_Witness ==
    /\ pc = "idle"
    /\ {"start", "notes_missing", "read_error", "no_data"} \subseteq logged
    /\ consolidated_csv.exists

FileRows(f) == IF f.exists THEN f.rows ELSE <<>>

\* C10 as claimed: after every consolidation run the consolidated file holds
\* exactly the rows of that run's directory walk.
C10_Rebuilt ==
    [][(pc = "walk" /\ pc' = "idle") =>
           FileRows(consolidated_csv') = ToCsv(WalkRows(variant, listing))]_vars

\* C10 as amended: a consolidation run that writes the file writes exactly
\* the rows of its own directory walk, nothing carried over; a run whose walk
\* yields no row, or whose write fails, leaves the file as it was.
C10_RebuiltWhenWritten ==
    [][(pc = "walk" /\ pc' = "idle") =>
           IF "saved" \in logged'
           THEN consolidated_csv' =
                    File(ConsolidatedColumns(variant), ToCsv(WalkRows(variant, listing)))
           ELSE consolidated_csv' = consolidated_csv]_vars

\* a consolidation of the three-entry tree has written its rows
C10_Witness ==
    /\ pc = "idle"
    /\ {"start", "saved"} \subseteq logged
    /\ consolidated_csv = ConsolidatedOf(variant, TreeMixed)

\* the positions in the listing of the folders with the given name
FolderAt(name) == {k \in 1..Len(listing) : listing[k].isDir /\ listing[k].name = name}

\* the date and note texts of a well-formed line as pandas holds them
LineCells(l) ==
    [date |-> IF l.date.kind = "text" /\ l.date.s \in NaStrings
              THEN PlainText("nan") ELSE l.date,
     note |-> IF l.note \in NaStrings THEN NaN ELSE l.note]

RowCells(r) == [date |-> r["Record Date"], note |-> r["Note"]]

Names(rows) == [i \in 1..Len(rows) |-> rows[i]["Employee Name"]]

\* rows with the same employee name are next to each other
Contiguous(rows) ==
    \A i \in 1..Len(rows), j \in 1..Len(rows), k \in 1..Len(rows) :
        (i < j /\ j < k /\ Names(rows)[i] = Names(rows)[k]) =>
            Names(rows)[j] = Names(rows)[i]

\* C11: every row of the consolidated table comes from the note file of
\* exactly one employee folder and carries that folder's name; the rows of
\* one employee are contiguous and in the order of the well-formed lines of
\* the file; employees appear in the order of the directory walk.
C11_RowOrder ==
    /\ pc = "walk" =>
          /\ \A i \in 1..Len(consolidated_data) :
                /\ Cardinality(FolderAt(Names(consolidated_data)[i])) = 1
                /\ \A k \in FolderAt(Names(consolidated_data)[i]) :
                      k < subidx /\ listing[k].notes.st = "ok"
          /\ Contiguous(consolidated_data)
          /\ \A i \in 1..Len(consolidated_data), j \in 1..Len(consolidated_data) :
                i < j =>
                    \A a \in FolderAt(Names(consolidated_data)[i]),
                       b \in FolderAt(Names(consolidated_data)[j]) : a <= b
          /\ \A k \in 1..(subidx - 1) :
                (listing[k].isDir /\ listing[k].notes.st = "ok") =>
                    LET mine == RowsOf(consolidated_data, listing[k].name)
                        good == SelectSeq(listing[k].notes.lines, LAMBDA l : ~l.bad)
                    IN  /\ Len(mine) = Len(good)
                        /\ \A i \in 1..Len(good) : RowCells(mine[i]) = LineCells(good[i])
    /\ consolidated_csv.exists => Contiguous(consolidated_csv.rows)

\* the walk of a tree with a non-directory, a one-line folder and a two-line
\* folder has ended
C11_Witness ==
    /\ pc = "walk"
    /\ subidx > Len(listing)
    /\ listing = TreeMixed.entries
    /\ Names(consolidated_data) = <<"Acme", "Bob Lee", "Bob Lee">>
    /\ consolidated_data[2]["Note"] = "papers"
    /\ consolidated_data[3]["Note"] = "mug"

\* the programs with the classifier loop
Loops == variant \in {"main", "gemini", "main2"}

\* the reply makes the row FAILED: it holds "fail" and not "pass"
SaysFail(o) ==
    HasReply(o) /\ HasWord(FailWord, RawText(o)) /\ ~HasWord(PassWord, RawText(o))

\* how often generate_pdf was invoked for row i
PdfCalls(i) == Cardinality({k \in 1..Len(events) : events[k].op = "pdf" /\ events[k].row = i})

\* C12: generate_pdf is invoked exactly once for a row whose verdict is
\* FAILED (in the Gemini program: and the generate-documents flag is set) and
\* never for a PASSED or UNKNOWN row or a row without a reply.
C12_DocIffFailed ==
    Loops =>
        \A i \in 1..Len(replies) :
            /\ PdfCalls(i) =
                  IF SaysFail(replies[i]) /\ (variant = "gemini" => generate_pdfs)
                  THEN 1 ELSE 0
            /\ (pc = "loop" /\ PdfCalls(i) = 1) => data[i]["AI_P_F"] = "FAILED"
            /\ (pc = "loop" /\ data[i]["AI_P_F"] = "FAILED") =>
                  PdfCalls(i) = (IF variant = "gemini" /\ ~generate_pdfs THEN 0 ELSE 1)

\* a finished run with a FAILED first row and a PASSED second row: one call,
\* for the first row
C12_Witness ==
    /\ Len(replies) = 2
    /\ SaysFail(replies[1])
    /\ HasWord(PassWord, RawText(replies[2]))
    /\ PdfCalls(1) = 1 /\ PdfCalls(2) = 0
    /\ Cardinality(pdf_reports) = 1
    /\ ReportWritten

\* the date generate_pdf reads in a record_date value, with the format of
\* the program
ParsedDate(v, record_date) ==
    IF record_date.kind \notin {"date", "text"} THEN NaT
    ELSE IF v = "gemini" THEN StrptimeYMD(record_date)
    ELSE IF v = "main2" THEN StrptimeDMY(record_date)
    ELSE DateutilParse(record_date)

\* C13: generate_pdf never aborts because of a bad date, whatever record_date
\* is (a string in another format, the default "Unknown", a missing or
\* non-string value): when the date does not parse the file name starts with
\* "Unknown_Date", a warning is logged and the document is written; when it
\* parses the file name starts with that date as MM-DD-YYYY.
C13_BadDate ==
    Loops =>
        /\ exc \notin {"TypeError", "ValueError"}
        /\ \A d \in pdf_reports :
              LET p == ParsedDate(variant, d.record_date)
              IN  IF p.kind = "ts"
                  THEN d.name.date = DateText("-", p.m, p.d, p.y)
                  ELSE /\ d.name.date = PlainText("Unknown_Date")
                       /\ "query" \in logged => "date_warning" \in logged
        /\ \A k \in 1..Len(events) :
              (events[k].op = "pdf" /\ pc = "loop") =>
                  \E d \in pdf_reports :
                      d.record_date =
                          RowGet(data[events[k].row], RecordDateColumn(variant),
                                 PlainText("Unknown"))

\* no LLM call of the most recent run let an exception through
NoQueryFault == \A k \in 1..Len(events) : events[k].op = "llm" => events[k].ok

\* C14: when generate_pdf fails for a FAILED row (the directory cannot be
\* created, the file cannot be written) the error is caught and logged, the
\* remaining rows are still classified and their documents generated, and
\* the report is still written.
C14_PdfFailureIsolated ==
    (Classifies /\ pc = "idle" /\ nrows > 0 /\ NoQueryFault) =>
        /\ Len(replies) = nrows
        /\ \A i \in 1..nrows :
              (SaysFail(replies[i]) /\ (variant = "gemini" => generate_pdfs)) =>
                  PdfCalls(i) = 1
        /\ \E k \in 1..Len(events) : events[k].op = "report"

\* the LLM calls of the most recent run, in the order they were made
LlmCalls == SelectSeq(events, LAMBDA e : e.op = "llm")

\* C15: within one run the LLM is called exactly once per row of the
\* filtered table, in table order, without a retry; the document of row i is
\* generated right after row i's call and before the call for row i+1.
C15_OncePerRowInOrder ==
    Loops =>
        /\ \A i \in 1..Len(LlmCalls) : LlmCalls[i].row = i
        /\ Len(LlmCalls) = Len(replies)
        /\ \A k \in 1..Len(events) :
              events[k].op = "pdf" =>
                  k > 1 /\ events[k - 1].op = "llm" /\ events[k - 1].row = events[k].row
        /\ pc = "loop" => Len(LlmCalls) = index - 1
        /\ (pc # "loop" /\ nrows > 0) => Len(LlmCalls) = nrows

\* row i of the table the most recent run classified, as read from the
\* filtered file
InputRow(i) == ReadCsvRow(ai_processed_csv.rows[i])

\* the rows of the most recent run whose document was written
DocRows == {i \in 1..Len(replies) : \E k \in 1..Len(events) : events[k] = Event("pdf", i, TRUE)}

\* a year-month-day date text as MM-DD-YYYY, anything else as Unknown_Date
NormalDate(t) ==
    IF t.kind = "date" /\ t.sep = "-" /\ ValidYMD(t.a, t.b, t.c)
    THEN DateText("-", t.b, t.c, t.a) ELSE PlainText("Unknown_Date")

\* the (normalized date, employee name) pair of row i
Pair(i) ==
    [date |-> NormalDate(InputRow(i)["Record Date"]),
     emp |-> ReplaceSpaces(InputRow(i)["Employee Name"])]

\* C16: documents with the same (normalized date, employee name) overwrite
\* each other: for every pair among the rows a run documented there is
\* exactly one document on disk, it holds the note and the AI text of the
\* last such row in table order, and the number of the run's documents is the
\* number of distinct pairs.
C16_Collisions ==
    Classifies =>
        /\ \A d1 \in pdf_reports, d2 \in pdf_reports : d1.name = d2.name => d1 = d2
        /\ \A i \in DocRows :
              \E d \in pdf_reports :
                  /\ d.name = Pair(i)
                  /\ (\A j \in DocRows : Pair(j) = Pair(i) => j <= i) =>
                        /\ d.notes = InputRow(i)["Note"]
                        /\ d.ai_response = Strip(RawText(replies[i]))
        /\ Cardinality({d \in pdf_reports : \E i \in DocRows : d.name = Pair(i)})
               = Cardinality({Pair(i) : i \in DocRows})

\* two FAILED rows of one employee on one day: one document, with the second
\* row's note
C16_Witness ==
    /\ ReportWritten
    /\ DocRows = {1, 2}
    /\ Pair(1) = Pair(2)
    /\ InputRow(1)["Note"] # InputRow(2)["Note"]
    /\ Cardinality(pdf_reports) = 1
    /\ \A d \in pdf_reports : d.notes = InputRow(2)["Note"]

GeminiSchema ==
    <<"Employee Name", "Last Clean Desk Date", "Location", "Compliant", "Note", "AI_Response">>

\* the columns of the Gemini report that come from the input table, with the
\* input column each is taken from
FromInput ==
    ("Employee Name" :> "Employee Name") @@ ("Last Clean Desk Date" :> "Record Date")
    @@ ("Location" :> "Location") @@ ("Note" :> "Note")

\* C17: the written report has its full schema.  Gemini program: exactly the
\* columns Employee Name, Last Clean Desk Date, Location, Compliant, Note,
\* AI_Response in that order, with the placeholder "Unknown" in every column
\* the input table lacked.  Ollama program: AI_P_F and AI_Response first,
\* then all columns of the input table in their order.
C17_Schema ==
    (Classifies /\ ReportWritten) =>
        /\ \A i \in 1..Len(output_with_ai_csv.rows) :
              DOMAIN output_with_ai_csv.rows[i] = Range(output_with_ai_csv.cols)
        /\ IF variant = "gemini"
           THEN /\ output_with_ai_csv.cols = GeminiSchema
                /\ \A i \in 1..Len(output_with_ai_csv.rows), c \in DOMAIN FromInput :
                      FromInput[c] \notin Range(ai_processed_csv.cols) =>
                          output_with_ai_csv.rows[i][c] = "Unknown"
           ELSE output_with_ai_csv.cols =
                    <<"AI_P_F", "AI_Response">> \o ai_processed_csv.cols

\* a Gemini report for an input table without the Location column
C17_Witness ==
    /\ variant = "gemini"
    /\ ReportWritten
    /\ ai_processed_csv.cols = <<"Employee Name", "Record Date", "Note">>
    /\ Len(output_with_ai_csv.rows) = 2
    /\ output_with_ai_csv.rows[1]["Location"] = "Unknown"
    /\ output_with_ai_csv.rows[2]["Location"] = "Unknown"

\* the name an input column has in the report
ReportColumn(c) ==
    IF variant = "gemini" /\ c = "Record Date" THEN "Last Clean Desk Date" ELSE c

\* C18: the report has one row per row of the filtered input table, in the
\* same order, whatever the verdict, and every value of an input column is
\* in the report as it was in the input: the classifier sets the verdict,
\* compliance and AI-response fields only.
C18_OneRowPerInputRow ==
    /\ (Classifies /\ pc = "loop") =>
          /\ Len(data) = Len(ai_processed_csv.rows)
          /\ \A i \in 1..Len(data), c \in Range(ai_processed_csv.cols) :
                data[i][c] = InputRow(i)[c]
    /\ (Classifies /\ ReportWritten) =>
          /\ Len(output_with_ai_csv.rows) = Len(ai_processed_csv.rows)
          /\ \A i \in 1..Len(ai_processed_csv.rows), c \in Range(ai_processed_csv.cols) :
                output_with_ai_csv.rows[i][ReportColumn(c)] = ai_processed_csv.rows[i][c]

\* a report with an UNKNOWN row (no reply) followed by a PASSED row, each
\* with the note of its input row
C18_Witness ==
    /\ variant = "main"
    /\ ReportWritten
    /\ Len(ai_processed_csv.rows) = 2
    /\ NoReply(replies[1])
    /\ HasWord(PassWord, RawText(replies[2]))
    /\ output_with_ai_csv.rows[1]["AI_P_F"] = "UNKNOWN"
    /\ output_with_ai_csv.rows[2]["AI_P_F"] = "PASSED"
    /\ output_with_ai_csv.rows[1]["Note"] = ai_processed_csv.rows[1]["Note"]
    /\ output_with_ai_csv.rows[2]["Note"] = ai_processed_csv.rows[2]["Note"]
    /\ ai_processed_csv.rows[1]["Note"] # ai_processed_csv.rows[2]["Note"]

\* C19: the reporter is idempotent.  The report projection applied to an
\* already-projected row of the classified table gives the same row, and a
\* report copy written by save_csv_report has the columns and rows of
\* output_with_ai.csv, cell for cell, and is written without a call to the
\* LLM.
C19_Idempotent ==
    [][/\ (variant = "gemini" /\ pc = "loop") =>
              \A i \in 1..Len(data) :
                  ProjectRow(ProjectRow(data[i])) = ProjectRow(data[i])
       /\ (clean_desk_report' # clean_desk_report) =>
              /\ clean_desk_report'.cols = output_with_ai_csv.cols
              /\ clean_desk_report'.rows = output_with_ai_csv.rows
              /\ UNCHANGED <<replies, events, calls, output_with_ai_csv>>]_vars

\* the reply stream has a line that is not JSON
HasNonJsonLine(o) == o.kind = "stream" /\ \E i \in 1..Len(o.lines) : ~o.lines[i].json

\* the step ends with the event op, with the result ok
Ends(op, ok) ==
    /\ Len(events') > Len(events)
    /\ events'[Len(events')].op = op
    /\ events'[Len(events')].ok = ok

\* C20: no caught error is discarded silently.  A failed request, a line of a
\* streamed reply that is not JSON, a document date that does not parse, an
\* unreadable note or location file and a failed write each leave an entry of
\* their own in the log or on the console in the step that catches them.
C20_NoSilentError ==
    [][/\ (pc = "loop" /\ Len(replies') = Len(replies) + 1) =>
              LET o == replies'[Len(replies')]
              IN  /\ CallFailed(o) => "request_error" \in logged' \cup console'
                  /\ HasNonJsonLine(o) => "json_error" \in logged' \cup console'
       /\ (pc = "loop" /\ Ends("pdf", TRUE)
               /\ Document(variant, data[index], <<>>).name.date = PlainText("Unknown_Date")) =>
              "date_warning" \in logged' \cup console'
       /\ (pc = "loop" /\ Ends("pdf", FALSE) /\ variant # "main2") =>
              "Error" \in logged' \cup console'
       /\ (Ends("report", FALSE) /\ variant # "main2") =>
              {"Error", "save_error"} \cap (logged' \cup console') # {}
       /\ (pc = "walk" /\ subidx' = subidx + 1 /\ listing[subidx].isDir
               /\ listing[subidx].notes.st # "absent") =>
              /\ listing[subidx].notes.st = "unreadable" => "read_error" \in logged'
              /\ (variant = "gemini" /\ listing[subidx].loc.st = "unreadable") =>
                     "loc_read_error" \in logged'
       /\ (pc = "walk" /\ pc' = "idle" /\ consolidated_data # <<>>) =>
              ("saved" \in logged' \/ "save_error" \in logged')]_vars

\* C21: table files are written only once the whole table is built.  The
\* consolidated file changes only in the step after the last directory entry
\* and then holds the rows of the whole walk; the report changes only in the
\* step after the last row and then has one row per classified row; a step
\* inside either loop, and a run that ends before its loop does, leaves both
\* files as they were (documents may have been written by then).
C21_WholeTables ==
    [][/\ (consolidated_csv' # consolidated_csv) =>
              /\ pc = "walk"
              /\ subidx > Len(listing)
              /\ consolidated_csv'.rows = ToCsv(WalkRows(variant, listing))
       /\ (output_with_ai_csv' # output_with_ai_csv) =>
              /\ pc = "loop"
              /\ index > Len(data)
              /\ Len(replies) = nrows
              /\ Len(output_with_ai_csv'.rows) = nrows
       /\ (pc = "walk" /\ subidx <= Len(listing)) => consolidated_csv' = consolidated_csv
       /\ (pc = "loop" /\ index <= Len(data)) =>
              UNCHANGED <<consolidated_csv, ai_processed_csv, output_with_ai_csv>>]_vars

\* a run of two rows that wrote the document of its first row and ended in
\* its second: no report on disk
C21_Witness ==
    /\ Classifies
    /\ pc = "idle"
    /\ "Error" \in console
    /\ nrows = 2
    /\ Len(replies) = 2
    /\ pdf_reports # {}
    /\ ~output_with_ai_csv.exists

\* a date text written year-month-day by to_csv
IsYMD(t) == t.kind = "date" /\ t.sep = "-" /\ ValidYMD(t.a, t.b, t.c)

\* C22: in the GUI pipelines of main.py and gemini_process.py every row that
\* reaches the classifier has a date, re-serialised year-month-day, so the
\* file name of every document starts with its row's record date as
\* MM-DD-YYYY (the text the consolidated table holds for the row) and the
\* prefix "Unknown_Date" is never produced, nor its warning logged.
C22_DatedDocuments ==
    Classifies =>
        /\ pc = "loop" =>
              /\ \A i \in 1..Len(data) : IsYMD(data[i]["Record Date"])
              /\ \A i \in DocRows :
                    \E d \in pdf_reports :
                        /\ d.record_date = data[i]["Record Date"]
                        /\ d.name.date = KeptRows(picked[1], picked[2])[i]["Record Date"]
        /\ \A d \in pdf_reports :
              /\ IsYMD(d.record_date)
              /\ d.name.date =
                     DateText("-", d.record_date.b, d.record_date.c, d.record_date.a)
              /\ d.name.date # PlainText("Unknown_Date")
        /\ "date_warning" \notin logged

\* a run in which the second row's document was written for the second of
\* March, from the date the filtered file holds as 2024-03-02
C22_Witness ==
    /\ Classifies
    /\ pc = "loop"
    /\ 2 \in DocRows
    /\ data[2]["Record Date"] = DateText("-", 2024, 3, 2)
    /\ \E d \in pdf_reports :
           d.record_date = DateText("-", 2024, 3, 2) /\ d.name.date = Dash(2)

\* a click on one of the save buttons with the given dates in the pickers
SaveCalled(start_date, end_date) ==
    \E open_file \in BOOLEAN, fault \in SaveFaults :
        save_csv_report(start_date, end_date, open_file, fault)

\* the most recent classification run went through all its rows
LastRunCompleted == events # <<>> /\ events[Len(events)].op = "report"

\* the report rows of the most recent classification run, from the rows of
\* its input file and the replies it got
LastRunRows ==
    ToCsv([i \in 1..Len(replies) |->
              ProjectRow(ClassifiedCells(variant, Query(variant, replies[i]))
                         @@ InputRow(i))])

\* C23: save_csv_report copies what output_with_ai.csv holds into
\* Clean_Desk_Report-{start}-{end}.csv: the copy has the columns and rows of
\* output_with_ai.csv, which are the rows of the most recent classification
\* run that completed, whatever the dates picked when saving, which only make
\* the file name; the save calls no LLM and leaves output_with_ai.csv (and
\* every other file) alone; when output_with_ai.csv cannot be read an error
\* is shown on the console and nothing is written.
C23_SaveCopies ==
    [][\A s \in Picks, e \in Picks :
          SaveCalled(s, e) =>
              /\ UNCHANGED <<consolidated_csv, ai_processed_csv, output_with_ai_csv,
                             pdf_reports, replies, events, calls, picked>>
              /\ clean_desk_report' # clean_desk_report =>
                     /\ output_with_ai_csv.exists
                     /\ clean_desk_report'.name = <<s, e>>
                     /\ clean_desk_report'.cols = output_with_ai_csv.cols
                     /\ clean_desk_report'.rows = output_with_ai_csv.rows
                     /\ LastRunCompleted => clean_desk_report'.rows = LastRunRows
              /\ ~output_with_ai_csv.exists =>
                     /\ clean_desk_report' = clean_desk_report
                     /\ "save_report_error" \in console']_vars

=============================================================================
